---- MODULE Spec2Model ----
(***************************************************************************)
(* A model of the three entry points of libjade's scripting layer:         *)
(*   build_libjade.py   the qmake / nmake build driver                      *)
(*   python/libjade.py  the SIP binding-generator driver                    *)
(*   test/jade-test.py  the demonstration application (DiagramWidget and    *)
(*                      DiagramWindow on top of the native DrawingWidget)   *)
(* The three do not interact; each has its own specification.              *)
(***************************************************************************)
EXTENDS Integers, Sequences, FiniteSets, TLC

VARIABLES
    \* ---- build_libjade.py
    clean,      \* the in-file setting `clean`
    bpc,        \* position of the build script
    running,    \* external processes started and not yet returned
    invoked,    \* the external tools that returned, in order, with their exit status
    fs,         \* the working directory: path -> what is there
    removed,    \* the paths the script itself removed with os.rmdir / os.remove
    \* ---- python/libjade.py
    spc,        \* position of the binding-generator script
    run,        \* number of the current run of the script
    codegen,    \* the output directory: whether it exists, and the files in it
    sipRuns,    \* the exit status of every SIP invocation so far, in order
    atSipStart, \* what the output directory held when SIP was started in this run
    \* ---- test/jade-test.py
    gpc,            \* "new", "widget" (DiagramWidget built), "running", "closed", "raised"
    widgetActions,  \* DiagramWidget.actions()
    contextMenus,   \* the four context menus of the DiagramWidget
    windowActions,  \* DiagramWindow.actions()
    modeActions,    \* DiagramWindow._modeActionGroup.actions()
    menuBar,        \* the menus of the window's menu bar
    modeLabel,      \* text of DiagramWindow._modeLabel
    mode,           \* DrawingWidget.mode()
    placeItem,      \* type of the item handed to setPlaceMode, "" when none
    selectedItems,  \* DrawingWidget.selectedItems()
    mouseDownItem,  \* DrawingWidget.mouseDownItem(), NoItem when None
    ev,             \* the event handled last
    calls           \* the calls the handler of that event made, in order

buildVars == <<clean, bpc, running, invoked, fs, removed>>
sipVars == <<spc, run, codegen, sipRuns, atSipStart>>

\* What each script leaves alone: the state of the other programs.
guiVars == <<gpc, widgetActions, contextMenus, windowActions, modeActions, menuBar,
             modeLabel, mode, placeItem, selectedItems, mouseDownItem, ev, calls>>

notBuildVars == <<sipVars, guiVars>>
notSipVars == <<buildVars, guiVars>>
notGuiVars == <<buildVars, sipVars>>

----------------------------------------------------------------------------
(* build_libjade.py *)

\* Largest exit status an external tool is taken to return (0 is success).
MaxExitStatus == 2

ExitStatuses == 0..MaxExitStatus

\* The order of the subprocess.call lines of the script.
ToolOrder == <<"qmake", "nmake release", "nmake clean">>

Directories == {"debug", "release"}
Makefiles == {"Makefile.Debug", "Makefile.Release", "Makefile"}
Intermediates == Directories \cup Makefiles
\* A source file of the project, which no step of the script names.
ProjectFile == "jade.pro"
Paths == Intermediates \cup {ProjectFile}

\* What the working directory can hold before the script runs and after an
\* external tool has run: a directory is absent, empty or not empty, a
\* makefile is absent or present; the project file is there.
FsStates ==
    { f \in [Paths -> {"absent", "file", "emptydir", "fulldir"}] :
        /\ \A d \in Directories : f[d] \in {"absent", "emptydir", "fulldir"}
        /\ \A m \in Makefiles : f[m] \in {"absent", "file"}
        /\ f[ProjectFile] = "file" }

\* An external tool rewrites the intermediate files as it likes and leaves
\* the project file alone.
ToolEffects(f) == { g \in FsStates : g[ProjectFile] = f[ProjectFile] }

InitBuild ==
    /\ clean \in BOOLEAN
    /\ bpc = "qmake"
    /\ running = {}
    /\ invoked = <<>>
    /\ fs \in FsStates
    /\ removed = {}

\* subprocess.call(tool): the child process is started ...
CallStart(tool) ==
    /\ running' = running \cup {tool}
    /\ bpc' = "wait " \o tool
    /\ UNCHANGED <<clean, invoked, fs, removed, notBuildVars>>

\* As subprocess.check_call would do: a non-zero exit status raises.
AfterCallChecked(status, next) == IF status = 0 THEN next ELSE "raised"

\* Where the script continues once a tool has returned with `status`.
AfterCall(status, next) == next

\* ... and the script waits for it; the exit status is the value of the
\* call expression, which the script does not use.
CallReturn(tool, next) ==
    /\ tool \in running
    /\ \E status \in ExitStatuses, g \in ToolEffects(fs) :
        /\ invoked' = Append(invoked, [tool |-> tool, status |-> status])
        /\ fs' = g
        /\ bpc' = AfterCall(status, next)
    /\ running' = running \ {tool}
    /\ UNCHANGED <<clean, removed, notBuildVars>>

\* os.rmdir(path): removes an empty directory, raises OSError otherwise.
Rmdir(path, next) ==
    /\ IF fs[path] = "emptydir"
         THEN /\ fs' = [fs EXCEPT ![path] = "absent"]
              /\ removed' = removed \cup {path}
              /\ bpc' = next
         ELSE /\ bpc' = "raised"
              /\ UNCHANGED <<fs, removed>>
    /\ UNCHANGED <<clean, running, invoked, notBuildVars>>

\* os.remove(path): removes a file, raises OSError otherwise.
Remove(path, next) ==
    /\ IF fs[path] = "file"
         THEN /\ fs' = [fs EXCEPT ![path] = "absent"]
              /\ removed' = removed \cup {path}
              /\ bpc' = next
         ELSE /\ bpc' = "raised"
              /\ UNCHANGED <<fs, removed>>
    /\ UNCHANGED <<clean, running, invoked, notBuildVars>>

\* Line 9: subprocess.call("qmake")
StartQmake ==
    /\ bpc = "qmake"
    /\ CallStart(ToolOrder[1])

ReturnQmake ==
    /\ bpc = "wait qmake"
    /\ CallReturn(ToolOrder[1], "nmake release")

\* Line 12: subprocess.call("nmake release")
StartNmakeRelease ==
    /\ bpc = "nmake release"
    /\ CallStart(ToolOrder[2])

ReturnNmakeRelease ==
    /\ bpc = "wait nmake release"
    /\ CallReturn(ToolOrder[2], "if clean")

\* The clean-up block run whatever the setting says.
CleanAlways == TRUE

\* Whether the clean-up block runs.
CleanRequested == clean

\* Line 15: if (clean):
IfClean ==
    /\ bpc = "if clean"
    /\ bpc' = IF CleanRequested THEN "nmake clean" ELSE "done"
    /\ UNCHANGED <<clean, running, invoked, fs, removed, notBuildVars>>

\* Line 16: subprocess.call("nmake clean")
StartNmakeClean ==
    /\ bpc = "nmake clean"
    /\ CallStart(ToolOrder[3])

ReturnNmakeClean ==
    /\ bpc = "wait nmake clean"
    /\ CallReturn(ToolOrder[3], "rmdir debug")

\* The process cannot be started (no such program on PATH): subprocess.call
\* raises OSError, which the script does not catch.
CannotStart ==
    /\ bpc \in {"qmake", "nmake release", "nmake clean"}
    /\ bpc' = "raised"
    /\ UNCHANGED <<clean, running, invoked, fs, removed, notBuildVars>>

\* The paths of the clean-up block, in the order of its lines.
CleanupTargets == <<"debug", "release", "Makefile.Debug", "Makefile.Release", "Makefile">>

\* Lines 17-21
RmdirDebug ==
    /\ bpc = "rmdir debug"
    /\ Rmdir(CleanupTargets[1], "rmdir release")

RmdirRelease ==
    /\ bpc = "rmdir release"
    /\ Rmdir(CleanupTargets[2], "remove Makefile.Debug")

RemoveMakefileDebug ==
    /\ bpc = "remove Makefile.Debug"
    /\ Remove(CleanupTargets[3], "remove Makefile.Release")

RemoveMakefileRelease ==
    /\ bpc = "remove Makefile.Release"
    /\ Remove(CleanupTargets[4], "remove Makefile")

RemoveMakefile ==
    /\ bpc = "remove Makefile"
    /\ Remove(CleanupTargets[5], "done")

NextBuild ==
    \/ StartQmake
    \/ ReturnQmake
    \/ StartNmakeRelease
    \/ ReturnNmakeRelease
    \/ IfClean
    \/ StartNmakeClean
    \/ ReturnNmakeClean
    \/ CannotStart
    \/ RmdirDebug
    \/ RmdirRelease
    \/ RemoveMakefileDebug
    \/ RemoveMakefileRelease
    \/ RemoveMakefile

----------------------------------------------------------------------------
(* python/libjade.py *)

\* Number of times the script is run one after the other.
MaxRuns == 3

\* Line 30 and the module file SIP writes beside it: the generated output.
build_file == "jade.sbf"
OutputFiles == {build_file, "sipAPIjade.h", "sipjadecmodule.cpp"}

\* The files of output_dir are told apart by the run that wrote them.
FilesOfRun(r) == { [name |-> n, run |-> r] : n \in OutputFiles }

\* output_dir as a path of the file system: nothing there, or a directory
\* holding files.
Absent == [exists |-> FALSE, files |-> {}]
Directory(files) == [exists |-> TRUE, files |-> files]

\* Before the first run output_dir is absent, empty, or holds what an earlier
\* run (run 0) left.
InitSip ==
    /\ spc = "idle"
    /\ run = 0
    /\ codegen \in {Absent} \cup { Directory(F) : F \in SUBSET FilesOfRun(0) }
    /\ sipRuns = <<>>
    /\ atSipStart = <<>>

\* python libjade.py: the module is run from its first line.
StartRun ==
    /\ spc \in {"idle", "done"}
    /\ run < MaxRuns
    /\ run' = run + 1
    /\ spc' = "exists"
    /\ atSipStart' = <<>>
    /\ UNCHANGED <<codegen, sipRuns, notSipVars>>

\* An existence test that never sees the directory.
ExistsNever(dir) == FALSE

\* os.path.exists(output_dir)
Exists(dir) == dir.exists

\* shutil.rmtree(output_dir): the directory and all it holds are gone.
Rmtree(dir) == Absent

\* Lines 40-41: if (os.path.exists(output_dir)): shutil.rmtree(output_dir)
RemoveOldOutput ==
    /\ spc = "exists"
    /\ codegen' = IF Exists(codegen) THEN Rmtree(codegen) ELSE codegen
    /\ spc' = "mkdir"
    /\ UNCHANGED <<run, sipRuns, atSipStart, notSipVars>>

\* Line 42: os.mkdir(output_dir) makes an empty directory, and raises
\* FileExistsError when the path exists.
Mkdir ==
    /\ spc = "mkdir"
    /\ IF ~codegen.exists
         THEN codegen' = Directory({}) /\ spc' = "sip"
         ELSE spc' = "raised" /\ UNCHANGED codegen
    /\ UNCHANGED <<run, sipRuns, atSipStart, notSipVars>>

\* Line 44: os.system(...) starts SIP on output_dir ...
SipStart ==
    /\ spc = "sip"
    /\ atSipStart' = <<codegen>>
    /\ spc' = "wait sip"
    /\ UNCHANGED <<run, codegen, sipRuns, notSipVars>>

\* What SIP leaves in output_dir: all of its output when it succeeds (exit
\* status 0), any part of it, or nothing, when it fails.
SipWrites(status) ==
    IF status = 0 THEN {FilesOfRun(run)} ELSE SUBSET FilesOfRun(run)

\* Where the script continues once SIP has returned with `status`: the value
\* of os.system is not used, and line 44 is the last statement.
AfterSip(status) == "done"

\* ... and returns when SIP has ended.
SipReturn ==
    /\ spc = "wait sip"
    /\ codegen.exists
    /\ \E status \in ExitStatuses, written \in SUBSET FilesOfRun(run) :
        /\ written \in SipWrites(status)
        /\ codegen' = Directory(codegen.files \cup written)
        /\ sipRuns' = Append(sipRuns, status)
        /\ spc' = AfterSip(status)
    /\ UNCHANGED <<run, atSipStart, notSipVars>>

NextSip ==
    \/ StartRun
    \/ RemoveOldOutput
    \/ Mkdir
    \/ SipStart
    \/ SipReturn

----------------------------------------------------------------------------
(* test/jade-test.py: enumerations and action lists *)

\* ( A, B, ..., N ) = range(n): the value bound to a name is its place in the
\* tuple, counted from 0.
EnumValue(names, name) == (CHOOSE i \in 1..Len(names) : names[i] = name) - 1

\* Lines 10-14
DiagramWidgetEnum ==
    <<"UndoAction", "RedoAction", "CutAction", "CopyAction", "PasteAction", "DeleteAction",
      "SelectAllAction", "SelectNoneAction", "RotateAction", "RotateBackAction", "FlipAction",
      "BringForwardAction", "SendBackwardAction", "BringToFrontAction", "SendToBackAction",
      "InsertPointAction", "RemovePointAction", "GroupAction", "UngroupAction",
      "ZoomInAction", "ZoomOutAction", "ZoomFitAction", "NumberOfActions">>

\* Line 141
DiagramWindowEnum == <<"AboutQtAction", "ExitAction", "NumberOfActions">>

\* Lines 142-146
ModeEnum ==
    <<"DefaultModeAction", "ScrollModeAction", "ZoomModeAction",
      "PlaceArcAction", "PlaceCurveAction", "PlaceEllipseAction", "PlaceLineAction",
      "PlacePathAction", "PlacePolygonAction", "PlacePolylineAction", "PlaceRectAction",
      "PlaceTextAction", "PlaceTextRectAction", "PlaceTextEllipseAction",
      "PlaceTextPolygonAction", "NumberOfModeActions">>

\* actions[index].text() of a Python list: IndexError past the end.
At(actions, index) ==
    IF index + 1 \in 1..Len(actions) THEN actions[index + 1].text ELSE "IndexError"

\* addAction(self, text, slot, iconPath="", shortcut=""), lines 126-136 and
\* 342-352: a QAction with the text, connected to the slot, with the icon and
\* the shortcut when they are not "", appended to the owner's actions.
AddAction(actions, args) ==
    Append(actions, [text |-> args[1], slot |-> args[2],
                     icon |-> IF Len(args) >= 3 THEN args[3] ELSE "",
                     shortcut |-> IF Len(args) >= 4 THEN args[4] ELSE ""])

\* addModeAction(self, text, slot, iconPath="", shortcut=""), lines 354-364:
\* the slot is not connected; the action is checkable and joins the group.
AddModeAction(actions, args) ==
    Append(actions, [text |-> args[1], slot |-> "",
                     icon |-> IF Len(args) >= 3 THEN args[3] ELSE "",
                     shortcut |-> IF Len(args) >= 4 THEN args[4] ELSE "",
                     checkable |-> TRUE, checked |-> FALSE])

\* The addAction calls of DiagramWidget.addActions with two slots exchanged.
addActionsSwapped ==
    << <<"Undo", "undo", "", "Ctrl+Z">>,
       <<"Redo", "redo", "", "Ctrl+Shift+Z">>,
       <<"Cut", "cut", "", "Ctrl+X">>,
       <<"Copy", "copy", "", "Ctrl+C">>,
       <<"Paste", "paste", "", "Ctrl+V">>,
       <<"Delete", "deleteSelection", "", "Delete">>,
       <<"Select All", "selectAll", "", "Ctrl+A">>,
       <<"Select None", "selectNone", "", "Ctrl+Shift+A">>,
       <<"Rotate", "rotateSelection", "", "R">>,
       <<"Rotate Back", "rotateBackSelection", "", "Shift+R">>,
       <<"Flip", "flipSelection", "", "F">>,
       <<"Bring Forward", "bringForward", "">>,
       <<"Send Backward", "sendBackward", "">>,
       <<"Bring to Front", "bringToFront", "">>,
       <<"Send to Back", "sendToBack", "">>,
       <<"Insert Point", "insertItemPoint", "">>,
       <<"Remove Point", "removeItemPoint", "">>,
       <<"Group", "group", "", "Ctrl+G">>,
       <<"Ungroup", "ungroup", "", "Ctrl+Shift+G">>,
       <<"Zoom In", "zoomOut", "", ".">>,
       <<"Zoom Out", "zoomIn", "", ",">>,
       <<"Zoom Fit", "zoomFit", "", "/">> >>

\* The addAction calls of DiagramWidget.addActions, lines 44-70, in order,
\* each with the arguments it is given.
addActions ==
    << <<"Undo", "undo", "", "Ctrl+Z">>,
       <<"Redo", "redo", "", "Ctrl+Shift+Z">>,
       <<"Cut", "cut", "", "Ctrl+X">>,
       <<"Copy", "copy", "", "Ctrl+C">>,
       <<"Paste", "paste", "", "Ctrl+V">>,
       <<"Delete", "deleteSelection", "", "Delete">>,
       <<"Select All", "selectAll", "", "Ctrl+A">>,
       <<"Select None", "selectNone", "", "Ctrl+Shift+A">>,
       <<"Rotate", "rotateSelection", "", "R">>,
       <<"Rotate Back", "rotateBackSelection", "", "Shift+R">>,
       <<"Flip", "flipSelection", "", "F">>,
       <<"Bring Forward", "bringForward", "">>,
       <<"Send Backward", "sendBackward", "">>,
       <<"Bring to Front", "bringToFront", "">>,
       <<"Send to Back", "sendToBack", "">>,
       <<"Insert Point", "insertItemPoint", "">>,
       <<"Remove Point", "removeItemPoint", "">>,
       <<"Group", "group", "", "Ctrl+G">>,
       <<"Ungroup", "ungroup", "", "Ctrl+Shift+G">>,
       <<"Zoom In", "zoomIn", "", ".">>,
       <<"Zoom Out", "zoomOut", "", ",">>,
       <<"Zoom Fit", "zoomFit", "", "/">> >>

\* The addAction calls of DiagramWindow.createActions, lines 257-258.
windowAddActions ==
    << <<"About Qt...", "qApp.aboutQt">>,
       <<"Exit", "close">> >>

\* The addModeAction calls of DiagramWindow.createActions with two of them
\* exchanged.
addModeActionsSwapped ==
    << <<"Select Mode", "", "Escape">>,
       <<"Zoom Mode", "", "">>,
       <<"Scroll Mode", "", "">>,
       <<"Place Arc", "", "">>,
       <<"Place Curve", "", "">>,
       <<"Place Ellipse", "", "">>,
       <<"Place Line", "", "">>,
       <<"Place Path", "", "">>,
       <<"Place Polygon", "", "">>,
       <<"Place Polyline", "", "">>,
       <<"Place Rect", "", "">>,
       <<"Place Text", "", "">>,
       <<"Place Text Rect", "", "">>,
       <<"Place Text Ellipse", "", "">>,
       <<"Place Text Polygon", "", "">> >>

\* The addModeAction calls of DiagramWindow.createActions, lines 263-277.
addModeActions ==
    << <<"Select Mode", "", "Escape">>,
       <<"Scroll Mode", "", "">>,
       <<"Zoom Mode", "", "">>,
       <<"Place Arc", "", "">>,
       <<"Place Curve", "", "">>,
       <<"Place Ellipse", "", "">>,
       <<"Place Line", "", "">>,
       <<"Place Path", "", "">>,
       <<"Place Polygon", "", "">>,
       <<"Place Polyline", "", "">>,
       <<"Place Rect", "", "">>,
       <<"Place Text", "", "">>,
       <<"Place Text Rect", "", "">>,
       <<"Place Text Ellipse", "", "">>,
       <<"Place Text Polygon", "", "">> >>

\* The list left by making the calls one after the other.
RECURSIVE AddAll(_, _, _)
AddAll(actions, callList, isMode) ==
    IF callList = <<>> THEN actions
    ELSE AddAll(IF isMode THEN AddModeAction(actions, Head(callList))
                          ELSE AddAction(actions, Head(callList)),
                Tail(callList), isMode)

----------------------------------------------------------------------------
(* test/jade-test.py: menus and construction *)

\* menu.addAction(actions[Class.Const]) for each name, menu.addSeparator()
\* for "sep": the menu's entries, each the text of the action found.
MenuOf(actions, enum, entries) ==
    [i \in 1..Len(entries) |->
        IF entries[i] = "sep" THEN "sep" ELSE At(actions, EnumValue(enum, entries[i]))]

\* Lines 75-86
singleItemEntries ==
    <<"RotateAction", "RotateBackAction", "FlipAction", "DeleteAction", "sep",
      "GroupAction", "UngroupAction", "sep",
      "CutAction", "CopyAction", "PasteAction">>

\* Lines 88-99
singlePolyItemEntries ==
    <<"InsertPointAction", "RemovePointAction", "sep",
      "RotateAction", "RotateBackAction", "FlipAction", "DeleteAction", "sep",
      "CutAction", "CopyAction", "PasteAction">>

\* Lines 101-112
multipleItemEntries ==
    <<"RotateAction", "RotateBackAction", "FlipAction", "DeleteAction", "sep",
      "GroupAction", "UngroupAction", "sep",
      "CutAction", "CopyAction", "PasteAction">>

\* Lines 114-124
diagramEntries ==
    <<"UndoAction", "RedoAction", "sep",
      "CutAction", "CopyAction", "PasteAction", "sep",
      "ZoomInAction", "ZoomOutAction", "ZoomFitAction">>

\* DiagramWidget.createContextMenus, lines 72-124
createContextMenus(actions) ==
    [_singleItemContextMenu |-> MenuOf(actions, DiagramWidgetEnum, singleItemEntries),
     _singlePolyItemContextMenu |-> MenuOf(actions, DiagramWidgetEnum, singlePolyItemEntries),
     _multipleItemContextMenu |-> MenuOf(actions, DiagramWidgetEnum, multipleItemEntries),
     _diagramContextMenu |-> MenuOf(actions, DiagramWidgetEnum, diagramEntries)]

\* DiagramWindow.createMenus, lines 281-340
createMenus(actions, diagramActions, groupActions) ==
    << [title |-> "File",
        entries |-> MenuOf(actions, DiagramWindowEnum,
                           <<"AboutQtAction", "sep", "ExitAction">>)],
       [title |-> "Edit",
        entries |-> MenuOf(diagramActions, DiagramWidgetEnum,
                           <<"UndoAction", "RedoAction", "sep",
                             "CutAction", "CopyAction", "PasteAction", "DeleteAction", "sep",
                             "SelectAllAction", "SelectNoneAction">>)],
       [title |-> "Object",
        entries |-> MenuOf(diagramActions, DiagramWidgetEnum,
                           <<"RotateAction", "RotateBackAction", "FlipAction", "sep",
                             "InsertPointAction", "RemovePointAction", "sep",
                             "GroupAction", "UngroupAction", "sep",
                             "BringForwardAction", "SendBackwardAction",
                             "BringToFrontAction", "SendToBackAction">>)],
       [title |-> "Diagram",
        entries |-> MenuOf(groupActions, ModeEnum,
                           <<"DefaultModeAction", "ScrollModeAction", "ZoomModeAction", "sep",
                             "PlaceArcAction", "PlaceCurveAction", "PlaceEllipseAction",
                             "PlaceLineAction", "PlacePathAction", "PlacePolygonAction",
                             "PlacePolylineAction", "PlaceRectAction", "PlaceTextAction",
                             "PlaceTextRectAction", "PlaceTextEllipseAction",
                             "PlaceTextPolygonAction">>)],
       [title |-> "View",
        entries |-> MenuOf(diagramActions, DiagramWidgetEnum,
                           <<"ZoomInAction", "ZoomOutAction", "ZoomFitAction">>)] >>

\* A lookup of some entry was past the end of its list.
MenuRaises(menu) == \E i \in 1..Len(menu) : menu[i] = "IndexError"

\* action.setChecked(True) on a member of the exclusive QActionGroup: the
\* action is checked and every other member is unchecked.
SetChecked(actions, index) ==
    [j \in 1..Len(actions) |-> [actions[j] EXCEPT !.checked = (j = index + 1)]]

\* The items of the diagram, and the value standing for Python's None.
NumItems == 2
Items == 1..NumItems
NoItem == 0

\* A new window: nothing is built yet; the native widget will start in
\* DefaultMode with nothing selected and no item under the mouse.
InitGui ==
    /\ gpc = "new"
    /\ widgetActions = <<>>
    /\ contextMenus = [_singleItemContextMenu |-> <<>>, _singlePolyItemContextMenu |-> <<>>,
                       _multipleItemContextMenu |-> <<>>, _diagramContextMenu |-> <<>>]
    /\ windowActions = <<>>
    /\ modeActions = <<>>
    /\ menuBar = <<>>
    /\ modeLabel = ""
    /\ mode = "DefaultMode"
    /\ placeItem = ""
    /\ selectedItems = {}
    /\ mouseDownItem = NoItem
    /\ ev = [kind |-> "none", arg |-> ""]
    /\ calls = <<>>

\* DiagramWidget.__init__, lines 16-19: addActions, then createContextMenus.
ConstructDiagramWidget ==
    /\ gpc = "new"
    /\ LET actions == AddAll(<<>>, addActions, FALSE)
           menus == createContextMenus(actions)
       IN /\ widgetActions' = actions
          /\ contextMenus' = menus
          /\ gpc' = IF \E m \in DOMAIN menus : MenuRaises(menus[m])
                      THEN "raised" ELSE "widget"
    /\ ev' = [kind |-> "construct", arg |-> "DiagramWidget"]
    /\ UNCHANGED <<windowActions, modeActions, menuBar, modeLabel, mode, placeItem,
                   selectedItems, mouseDownItem, calls, notGuiVars>>

\* DiagramWindow.__init__ after the widget is made, lines 152-177: the mode
\* label, createActions (the two window actions, the mode actions, the
\* default one checked) and createMenus.
ConstructDiagramWindow ==
    /\ gpc = "widget"
    /\ LET actions == AddAll(<<>>, windowAddActions, FALSE)
           group == AddAll(<<>>, addModeActions, TRUE)
           first == EnumValue(ModeEnum, "DefaultModeAction")
           menus == createMenus(actions, widgetActions, group)
           raises == \/ first + 1 \notin 1..Len(group)
                     \/ \E i \in 1..Len(menus) : MenuRaises(menus[i].entries)
       IN /\ windowActions' = actions
          /\ modeActions' = IF first + 1 \in 1..Len(group)
                              THEN SetChecked(group, first) ELSE group
          /\ menuBar' = menus
          /\ gpc' = IF raises THEN "raised" ELSE "running"
    /\ modeLabel' = "Select Mode"
    /\ ev' = [kind |-> "construct", arg |-> "DiagramWindow"]
    /\ UNCHANGED <<widgetActions, contextMenus, mode, placeItem,
                   selectedItems, mouseDownItem, calls, notGuiVars>>

----------------------------------------------------------------------------
(* test/jade-test.py: the running window *)

\* The native DrawingWidget: the mode a mode-setting method enters.
ModeEntered(method) ==
    CASE method = "setScrollMode" -> "ScrollMode"
      [] method = "setZoomMode" -> "ZoomMode"
      [] method = "setPlaceMode" -> "PlaceMode"
      [] method = "setDefaultMode" -> "DefaultMode"

\* The native DrawingWidget: modeChanged is emitted on every change of the
\* mode; setting the mode it is in may or may not emit it.
MayEmit(newMode) == IF newMode = mode THEN BOOLEAN ELSE {TRUE}

\* A dispatch that falls back to the default mode for the text-item labels.
setModeFromActionShort(text) ==
    CASE text = "Scroll Mode" -> [method |-> "setScrollMode", item |-> ""]
      [] text = "Zoom Mode" -> [method |-> "setZoomMode", item |-> ""]
      [] text = "Place Arc" -> [method |-> "setPlaceMode", item |-> "DrawingArcItem"]
      [] text = "Place Curve" -> [method |-> "setPlaceMode", item |-> "DrawingCurveItem"]
      [] text = "Place Ellipse" -> [method |-> "setPlaceMode", item |-> "DrawingEllipseItem"]
      [] text = "Place Line" -> [method |-> "setPlaceMode", item |-> "DrawingLineItem"]
      [] text = "Place Polygon" -> [method |-> "setPlaceMode", item |-> "DrawingPolygonItem"]
      [] text = "Place Polyline" -> [method |-> "setPlaceMode", item |-> "DrawingPolylineItem"]
      [] text = "Place Rect" -> [method |-> "setPlaceMode", item |-> "DrawingRectItem"]
      [] text = "Place Text" -> [method |-> "setPlaceMode", item |-> "DrawingTextItem"]
      [] text = "Place Path" -> [method |-> "setPlaceMode", item |-> "DrawingPathItem"]
      [] OTHER -> [method |-> "setDefaultMode", item |-> ""]

\* DiagramWindow.setModeFromAction, lines 179-214: the one call made on the
\* widget for the action's text, with the type of the item it is given.
setModeFromAction(text) ==
    CASE text = "Scroll Mode" -> [method |-> "setScrollMode", item |-> ""]
      [] text = "Zoom Mode" -> [method |-> "setZoomMode", item |-> ""]
      [] text = "Place Arc" -> [method |-> "setPlaceMode", item |-> "DrawingArcItem"]
      [] text = "Place Curve" -> [method |-> "setPlaceMode", item |-> "DrawingCurveItem"]
      [] text = "Place Ellipse" -> [method |-> "setPlaceMode", item |-> "DrawingEllipseItem"]
      [] text = "Place Line" -> [method |-> "setPlaceMode", item |-> "DrawingLineItem"]
      [] text = "Place Polygon" -> [method |-> "setPlaceMode", item |-> "DrawingPolygonItem"]
      [] text = "Place Polyline" -> [method |-> "setPlaceMode", item |-> "DrawingPolylineItem"]
      [] text = "Place Rect" -> [method |-> "setPlaceMode", item |-> "DrawingRectItem"]
      [] text = "Place Text" -> [method |-> "setPlaceMode", item |-> "DrawingTextItem"]
      [] text = "Place Path" -> [method |-> "setPlaceMode", item |-> "DrawingPathItem"]
      [] text = "Place Text Rect" ->
             [method |-> "setPlaceMode", item |-> "DrawingTextRectItem"]
      [] text = "Place Text Ellipse" ->
             [method |-> "setPlaceMode", item |-> "DrawingTextEllipseItem"]
      [] text = "Place Text Polygon" ->
             [method |-> "setPlaceMode", item |-> "DrawingTextPolygonItem"]
      [] OTHER -> [method |-> "setDefaultMode", item |-> ""]

\* The index updateActionFromMode looks up for a mode, -1 when it looks up
\* none (lines 219-224).
ModeActionIndex(m) ==
    CASE m = "ScrollMode" -> EnumValue(ModeEnum, "ScrollModeAction")
      [] m = "ZoomMode" -> EnumValue(ModeEnum, "ZoomModeAction")
      [] m = "DefaultMode" -> EnumValue(ModeEnum, "DefaultModeAction")
      [] OTHER -> -1

\* The lookup of updateActionFromMode is past the end of the list.
UpdateRaises(actions, m) ==
    ModeActionIndex(m) # -1 /\ ModeActionIndex(m) + 1 \notin 1..Len(actions)

\* An update that has no branch for the default mode.
updateActionFromModeNoDefault(actions, m) ==
    IF ModeActionIndex(m) = -1 \/ UpdateRaises(actions, m) \/ m = "DefaultMode"
      THEN actions
      ELSE SetChecked(actions, ModeActionIndex(m))

\* DiagramWindow.updateActionFromMode, lines 216-224
updateActionFromMode(actions, m) ==
    IF ModeActionIndex(m) = -1 \/ UpdateRaises(actions, m)
      THEN actions
      ELSE SetChecked(actions, ModeActionIndex(m))

\* A label that does not know the place mode.
setModeLabelNoPlace(m) ==
    CASE m = "ScrollMode" -> "Scroll Mode"
      [] m = "ZoomMode" -> "Zoom Mode"
      [] OTHER -> "Select Mode"

\* DiagramWindow.setModeLabel, lines 226-234: the text the label is given.
setModeLabel(m) ==
    CASE m = "ScrollMode" -> "Scroll Mode"
      [] m = "ZoomMode" -> "Zoom Mode"
      [] m = "PlaceMode" -> "Place Mode"
      [] OTHER -> "Select Mode"

\* The widget enters the mode of `call`; when modeChanged is emitted its two
\* slots run in the order they were connected (lines 166-167), on the action
\* list `actions`.
EnterMode(call, actions) ==
    LET newMode == ModeEntered(call.method) IN
    /\ mode' = newMode
    /\ placeItem' = call.item
    /\ \E emitted \in MayEmit(newMode) :
         IF emitted
           THEN /\ modeActions' = updateActionFromMode(actions, newMode)
                /\ modeLabel' = setModeLabel(newMode)
                /\ gpc' = IF UpdateRaises(actions, newMode) THEN "raised" ELSE gpc
           ELSE /\ modeActions' = actions
                /\ UNCHANGED <<modeLabel, gpc>>

\* QAction.activate on a checkable member of the exclusive group: an
\* unchecked action becomes the checked one, a checked one stays checked.
Activate(actions, i) == IF actions[i].checked THEN actions ELSE SetChecked(actions, i - 1)

\* A mode action is triggered (from the Diagram menu): it becomes the checked
\* one, and the group's triggered signal runs setModeFromAction on it.
TriggerModeAction ==
    /\ gpc = "running"
    /\ \E i \in 1..Len(modeActions) :
        LET call == setModeFromAction(modeActions[i].text) IN
        /\ ev' = [kind |-> "mode action", arg |-> modeActions[i].text]
        /\ calls' = <<call.method>>
        /\ EnterMode(call, Activate(modeActions, i))
    /\ UNCHANGED <<widgetActions, contextMenus, windowActions, menuBar,
                   selectedItems, mouseDownItem, notGuiVars>>

\* An action of the DiagramWidget is triggered from a menu: its slot, a
\* method of the native widget, is called.
TriggerWidgetAction ==
    /\ gpc = "running"
    /\ \E i \in 1..Len(widgetActions) :
        /\ ev' = [kind |-> "widget action", arg |-> widgetActions[i].text]
        /\ calls' = <<widgetActions[i].slot>>
    /\ UNCHANGED <<gpc, widgetActions, contextMenus, windowActions, modeActions, menuBar,
                   modeLabel, mode, placeItem, selectedItems, mouseDownItem, notGuiVars>>

\* An action of the window is triggered: "Exit" closes the window.
TriggerWindowAction ==
    /\ gpc = "running"
    /\ \E i \in 1..Len(windowActions) :
        /\ ev' = [kind |-> "window action", arg |-> windowActions[i].text]
        /\ calls' = <<windowActions[i].slot>>
        /\ gpc' = IF windowActions[i].slot = "close" THEN "closed" ELSE gpc
    /\ UNCHANGED <<widgetActions, contextMenus, windowActions, modeActions, menuBar,
                   modeLabel, mode, placeItem, selectedItems, mouseDownItem, notGuiVars>>

\* The key sequences a user may press: the shortcut strings named in the
\* source, and a key no action is given.
Keys ==
    { addActions[i][4] : i \in { j \in 1..Len(addActions) : Len(addActions[j]) >= 4 } }
      \cup {"Escape", "X"}

\* The actions of the application whose shortcut is `key`.
ShortcutMatches(key) ==
    { <<"widget", i>> : i \in { j \in 1..Len(widgetActions) : widgetActions[j].shortcut = key } }
      \cup
    { <<"window", i>> : i \in { j \in 1..Len(windowActions) : windowActions[j].shortcut = key } }
      \cup
    { <<"mode", i>> : i \in { j \in 1..Len(modeActions) : modeActions[j].shortcut = key } }

\* A key sequence is pressed: Qt triggers the action whose shortcut it is,
\* and none when no action or more than one has it.
KeyPress ==
    /\ gpc = "running"
    /\ \E key \in Keys :
        LET matches == ShortcutMatches(key) IN
        /\ ev' = [kind |-> "key", arg |-> key]
        /\ IF Cardinality(matches) = 1
             THEN LET a == CHOOSE x \in matches : TRUE IN
                  CASE a[1] = "widget" ->
                         /\ calls' = <<widgetActions[a[2]].slot>>
                         /\ UNCHANGED <<gpc, modeActions, modeLabel, mode, placeItem>>
                    [] a[1] = "window" ->
                         /\ calls' = <<windowActions[a[2]].slot>>
                         /\ gpc' = IF windowActions[a[2]].slot = "close" THEN "closed" ELSE gpc
                         /\ UNCHANGED <<modeActions, modeLabel, mode, placeItem>>
                    [] a[1] = "mode" ->
                         LET call == setModeFromAction(modeActions[a[2]].text) IN
                         /\ calls' = <<call.method>>
                         /\ EnterMode(call, Activate(modeActions, a[2]))
             ELSE /\ calls' = <<>>
                  /\ UNCHANGED <<gpc, modeActions, modeLabel, mode, placeItem>>
    /\ UNCHANGED <<widgetActions, contextMenus, windowActions, menuBar,
                   selectedItems, mouseDownItem, notGuiVars>>

\* DrawingItem.flags() of the items of the diagram: the combinations of the
\* two point flags, in turn.
ItemFlags(item) ==
    CASE item % 4 = 1 -> {"CanMove", "CanRemovePoints"}
      [] item % 4 = 2 -> {"CanMove"}
      [] item % 4 = 3 -> {"CanMove", "CanInsertPoints"}
      [] OTHER -> {"CanMove", "CanInsertPoints", "CanRemovePoints"}

\* The native widget on a mouse press: the item under the mouse, if any,
\* becomes mouseDownItem().
MousePress ==
    /\ gpc = "running"
    /\ mouseDownItem' \in Items \cup {NoItem}
    /\ ev' = [kind |-> "press", arg |-> ""]
    /\ calls' = <<>>
    /\ UNCHANGED <<gpc, widgetActions, contextMenus, windowActions, modeActions, menuBar,
                   modeLabel, mode, placeItem, selectedItems, notGuiVars>>

\* The native widget changes the selection (clicks, rubber band, commands).
SelectionChange ==
    /\ gpc = "running"
    /\ selectedItems' \in SUBSET Items
    /\ ev' = [kind |-> "selection", arg |-> ""]
    /\ calls' = <<>>
    /\ UNCHANGED <<gpc, widgetActions, contextMenus, windowActions, modeActions, menuBar,
                   modeLabel, mode, placeItem, mouseDownItem, notGuiVars>>

\* A menu choice that asks for the insert flag alone.
ContextMenuForInsertOnly(item, selected) ==
    IF item # NoItem /\ item \in selected /\ Cardinality(selected) = 1
      THEN IF "CanInsertPoints" \in ItemFlags(item)
             THEN "_singlePolyItemContextMenu"
             ELSE "_singleItemContextMenu"
      ELSE IF item # NoItem /\ item \in selected
             THEN "_multipleItemContextMenu"
             ELSE "_diagramContextMenu"

\* Lines 26-37: the context menu popped up for the pressed item and the
\* selection.
ContextMenuFor(item, selected) ==
    IF item # NoItem /\ item \in selected /\ Cardinality(selected) = 1
      THEN IF "CanInsertPoints" \in ItemFlags(item) \/ "CanRemovePoints" \in ItemFlags(item)
             THEN "_singlePolyItemContextMenu"
             ELSE "_singleItemContextMenu"
      ELSE IF item # NoItem /\ item \in selected
             THEN "_multipleItemContextMenu"
             ELSE "_diagramContextMenu"

\* Lines 34-36: clearSelection is called in the last branch when there is no
\* pressed item.
ClearsSelection(item, selected) ==
    /\ ContextMenuFor(item, selected) = "_diagramContextMenu"
    /\ item = NoItem

\* A handler that acts on every button.
HandlesAnyButton(button) == TRUE

\* Line 22: the handler acts on the right button only.
HandlesButton(button) == button = "RightButton"

Buttons == {"LeftButton", "RightButton", "MiddleButton"}

\* DiagramWidget.mouseReleaseEvent, lines 21-41
MouseRelease ==
    /\ gpc = "running"
    /\ \E button \in Buttons :
        /\ ev' = [kind |-> "release", arg |-> button]
        /\ IF HandlesButton(button)
             THEN IF mode = "DefaultMode"
                    THEN LET menu == ContextMenuFor(mouseDownItem, selectedItems)
                             clears == ClearsSelection(mouseDownItem, selectedItems)
                         IN /\ selectedItems' = IF clears THEN {} ELSE selectedItems
                            /\ calls' = (IF clears THEN <<"clearSelection">> ELSE <<>>)
                                          \o <<menu \o ".popup",
                                               "DrawingWidget.mouseReleaseEvent">>
                            /\ UNCHANGED <<gpc, modeActions, modeLabel, mode, placeItem>>
                    ELSE /\ calls' = <<"setDefaultMode", "DrawingWidget.mouseReleaseEvent">>
                         /\ EnterMode([method |-> "setDefaultMode", item |-> ""], modeActions)
                         /\ UNCHANGED selectedItems
             ELSE /\ calls' = <<"DrawingWidget.mouseReleaseEvent">>
                  /\ UNCHANGED <<gpc, modeActions, modeLabel, mode, placeItem, selectedItems>>
    /\ UNCHANGED <<widgetActions, contextMenus, windowActions, menuBar,
                   mouseDownItem, notGuiVars>>

NextGui ==
    \/ ConstructDiagramWidget
    \/ ConstructDiagramWindow
    \/ TriggerModeAction
    \/ TriggerWidgetAction
    \/ TriggerWindowAction
    \/ KeyPress
    \/ MousePress
    \/ SelectionChange
    \/ MouseRelease

----------------------------------------------------------------------------

vars == <<buildVars, sipVars, guiVars>>

\* build_libjade.py alone; the other two programs have not been started.
BuildInit ==
    /\ InitBuild
    /\ spc = "idle" /\ run = 0 /\ codegen = Absent /\ sipRuns = <<>>
    /\ atSipStart = <<>>
    /\ InitGui

BuildSpec == BuildInit /\ [][NextBuild]_vars

\* The state of the build script before it is started.
BuildIdle ==
    /\ clean = TRUE /\ bpc = "qmake" /\ running = {} /\ invoked = <<>>
    /\ fs = [p \in Paths |-> IF p = ProjectFile THEN "file" ELSE "absent"]
    /\ removed = {}

\* python/libjade.py alone.
SipInit ==
    /\ InitSip
    /\ BuildIdle
    /\ InitGui

SipSpec == SipInit /\ [][NextSip]_vars

\* test/jade-test.py alone.
Init ==
    /\ InitGui
    /\ BuildIdle
    /\ spc = "idle" /\ run = 0 /\ codegen = Absent /\ sipRuns = <<>>
    /\ atSipStart = <<>>

Next == NextGui

Spec == Init /\ [][Next]_vars

----------------------------------------------------------------------------
(* Properties of build_libjade.py *)

ToolsOf(log) == [i \in 1..Len(log) |-> log[i].tool]

IsPrefix(s, t) == Len(s) <= Len(t) /\ \A i \in 1..Len(s) : s[i] = t[i]

\* Where the script stands right after each tool has returned.
PositionAfter(tool) ==
    CASE tool = "qmake" -> "nmake release"
      [] tool = "nmake release" -> "if clean"
      [] tool = "nmake clean" -> "rmdir debug"

C3_OrderInv ==
    /\ IsPrefix(ToolsOf(invoked), ToolOrder)
    /\ Cardinality(running) <= 1
    /\ \A t \in running : Len(invoked) < 3 /\ t = ToolOrder[Len(invoked) + 1]
    /\ (Len(invoked) = 3 \/ "nmake clean" \in running) => clean
    /\ bpc = "done" => Len(invoked) = IF clean THEN 3 ELSE 2

C3_StatusDiscarded ==
    /\ Len(invoked') = Len(invoked) + 1 =>
           bpc' = PositionAfter(invoked'[Len(invoked')].tool)
    /\ (bpc = "if clean" /\ clean) => bpc' = "nmake clean"

\* C3: the external tools are invoked in the order qmake, "nmake release",
\* "nmake clean" (the last only when clean is set), each at most once and
\* each only after the one before it has returned; whatever exit status a
\* tool returns, the script goes on to the statement after the call.
C3_ToolOrder == [](C3_OrderInv) /\ [][C3_StatusDiscarded]_vars

\* The whole script ran to its end although qmake and "nmake release" failed.
C3_Witness ==
    /\ bpc = "done" /\ clean
    /\ Len(invoked) = 3
    /\ invoked[1].status # 0
    /\ invoked[2].status # 0

\* C4: with clean unset the script runs no "nmake clean" and removes nothing;
\* with clean set it removes, after "nmake clean" has returned, exactly the two
\* directories and the three makefiles, none of which is left when the script
\* ends normally; it removes no other path.
C4_CleanDecides ==
    /\ ~clean => /\ removed = {}
                 /\ "nmake clean" \notin running
                 /\ \A i \in 1..Len(invoked) : invoked[i].tool # "nmake clean"
    /\ removed # {} => /\ clean
                       /\ running = {}
                       /\ \E i \in 1..Len(invoked) : invoked[i].tool = "nmake clean"
    /\ removed \subseteq Intermediates
    /\ fs[ProjectFile] = "file"
    /\ (bpc = "done" /\ clean) =>
           /\ removed = Intermediates
           /\ \A p \in Intermediates : fs[p] = "absent"

C4_Witness ==
    /\ bpc = "done" /\ clean
    /\ removed = Intermediates

----------------------------------------------------------------------------
(* Properties of python/libjade.py *)

OldFiles(dir) == { f \in dir.files : f.run # run }

C5_Inv ==
    /\ spc # "raised"
    /\ Len(sipRuns) = IF spc = "done" THEN run ELSE IF run = 0 THEN 0 ELSE run - 1
    /\ spc \in {"wait sip", "done"} =>
           atSipStart = <<Directory({})>>
    /\ spc \in {"sip", "wait sip", "done"} =>
           codegen.exists /\ OldFiles(codegen) = {}

C5_FailureIgnored ==
    Len(sipRuns') = Len(sipRuns) + 1 => spc' = "done"

\* C5: in every run the output directory is removed if it exists and made
\* anew, empty, before SIP is started; SIP is started once per run; the script
\* ends in the same way whatever SIP's exit status; so after a run in which
\* SIP failed the directory exists and holds no file of an earlier run.
C5_NoStaleOutput == [](C5_Inv) /\ [][C5_FailureIgnored]_vars

\* A later run in which SIP failed, after a run that left output behind.
C5_Witness ==
    /\ spc = "done"
    /\ run >= 2
    /\ sipRuns[run - 1] = 0
    /\ sipRuns[run] # 0
    /\ codegen.exists /\ OldFiles(codegen) = {}

----------------------------------------------------------------------------
(* Properties of test/jade-test.py *)

Built == gpc \in {"running", "closed"}

\* The item type each "Place X" label names.
PlaceTypes ==
    [l \in {"Place Arc", "Place Curve", "Place Ellipse", "Place Line", "Place Path",
            "Place Polygon", "Place Polyline", "Place Rect", "Place Text",
            "Place Text Rect", "Place Text Ellipse", "Place Text Polygon"} |->
        CASE l = "Place Arc" -> "DrawingArcItem"
          [] l = "Place Curve" -> "DrawingCurveItem"
          [] l = "Place Ellipse" -> "DrawingEllipseItem"
          [] l = "Place Line" -> "DrawingLineItem"
          [] l = "Place Path" -> "DrawingPathItem"
          [] l = "Place Polygon" -> "DrawingPolygonItem"
          [] l = "Place Polyline" -> "DrawingPolylineItem"
          [] l = "Place Rect" -> "DrawingRectItem"
          [] l = "Place Text" -> "DrawingTextItem"
          [] l = "Place Text Rect" -> "DrawingTextRectItem"
          [] l = "Place Text Ellipse" -> "DrawingTextEllipseItem"
          [] l = "Place Text Polygon" -> "DrawingTextPolygonItem"]

ModeSetters == {"setScrollMode", "setZoomMode", "setPlaceMode", "setDefaultMode"}

\* C1: a trigger of a mode action makes exactly one mode-setting call on the
\* widget: setScrollMode for "Scroll Mode", setZoomMode for "Zoom Mode",
\* setPlaceMode with a new item of the named type for each of the twelve
\* "Place X" labels, and setDefaultMode for any other label.
C1_ModeDispatch ==
    (Built /\ ev.kind = "mode action") =>
        /\ Len(calls) = 1
        /\ calls[1] \in ModeSetters
        /\ IF ev.arg = "Scroll Mode" THEN calls[1] = "setScrollMode" /\ placeItem = ""
           ELSE IF ev.arg = "Zoom Mode" THEN calls[1] = "setZoomMode" /\ placeItem = ""
           ELSE IF ev.arg \in DOMAIN PlaceTypes
                  THEN calls[1] = "setPlaceMode" /\ placeItem = PlaceTypes[ev.arg]
           ELSE calls[1] = "setDefaultMode" /\ placeItem = ""

C1_Witness ==
    /\ ev.kind = "mode action" /\ ev.arg = "Place Text Polygon"
    /\ calls = <<"setPlaceMode">> /\ placeItem = "DrawingTextPolygonItem"

\* The labels in the order of the index constants.
WidgetLabels ==
    <<"Undo", "Redo", "Cut", "Copy", "Paste", "Delete", "Select All", "Select None",
      "Rotate", "Rotate Back", "Flip",
      "Bring Forward", "Send Backward", "Bring to Front", "Send to Back",
      "Insert Point", "Remove Point", "Group", "Ungroup",
      "Zoom In", "Zoom Out", "Zoom Fit">>

ModeLabels ==
    <<"Select Mode", "Scroll Mode", "Zoom Mode",
      "Place Arc", "Place Curve", "Place Ellipse", "Place Line", "Place Path",
      "Place Polygon", "Place Polyline", "Place Rect", "Place Text",
      "Place Text Rect", "Place Text Ellipse", "Place Text Polygon">>

WindowLabels == <<"About Qt...", "Exit">>

\* The list holds `count` actions, and the action at each constant of the
\* enumeration has the label of that constant.
ListMatches(actions, enum, labels, count) ==
    /\ Len(actions) = count
    /\ Len(labels) = count
    /\ EnumValue(enum, enum[Len(enum)]) = count
    /\ \A i \in 1..count : At(actions, EnumValue(enum, enum[i])) = labels[i]

\* Every entry of the menu is the action labelled as the constant it was
\* looked up with.
MenuMatches(menu, entries, enum, labels) ==
    /\ Len(menu) = Len(entries)
    /\ \A i \in 1..Len(entries) :
         menu[i] = IF entries[i] = "sep" THEN "sep"
                   ELSE labels[EnumValue(enum, entries[i]) + 1]

\* C2: once built, DiagramWidget.actions() holds the 22 actions in the order
\* of UndoAction..ZoomFitAction, the mode action group the 15 in the order of
\* DefaultModeAction..PlaceTextPolygonAction, DiagramWindow.actions() the 2 in
\* the order AboutQtAction, ExitAction; no lookup of createContextMenus,
\* createMenus or updateActionFromMode is out of range, and each finds the
\* action labelled as its constant.
C2_IndexConstants ==
    /\ gpc # "raised"
    /\ gpc \in {"widget", "running", "closed"} =>
        /\ ListMatches(widgetActions, DiagramWidgetEnum, WidgetLabels, 22)
        /\ MenuMatches(contextMenus._singleItemContextMenu, singleItemEntries,
                       DiagramWidgetEnum, WidgetLabels)
        /\ MenuMatches(contextMenus._singlePolyItemContextMenu, singlePolyItemEntries,
                       DiagramWidgetEnum, WidgetLabels)
        /\ MenuMatches(contextMenus._multipleItemContextMenu, multipleItemEntries,
                       DiagramWidgetEnum, WidgetLabels)
        /\ MenuMatches(contextMenus._diagramContextMenu, diagramEntries,
                       DiagramWidgetEnum, WidgetLabels)
    /\ Built =>
        /\ ListMatches(modeActions, ModeEnum, ModeLabels, 15)
        /\ ListMatches(windowActions, DiagramWindowEnum, WindowLabels, 2)
        /\ Len(menuBar) = 5
        /\ menuBar[1].entries = <<"About Qt...", "sep", "Exit">>
        /\ menuBar[2].entries = <<"Undo", "Redo", "sep", "Cut", "Copy", "Paste", "Delete",
                                  "sep", "Select All", "Select None">>
        /\ menuBar[3].entries = <<"Rotate", "Rotate Back", "Flip", "sep",
                                  "Insert Point", "Remove Point", "sep",
                                  "Group", "Ungroup", "sep",
                                  "Bring Forward", "Send Backward",
                                  "Bring to Front", "Send to Back">>
        /\ menuBar[4].entries = SubSeq(ModeLabels, 1, 3) \o <<"sep">> \o SubSeq(ModeLabels, 4, 15)
        /\ menuBar[5].entries = <<"Zoom In", "Zoom Out", "Zoom Fit">>
        /\ \A m \in {"DefaultMode", "ScrollMode", "ZoomMode", "PlaceMode"} :
             /\ ~UpdateRaises(modeActions, m)
             /\ m = "ScrollMode" => At(modeActions, ModeActionIndex(m)) = "Scroll Mode"
             /\ m = "ZoomMode" => At(modeActions, ModeActionIndex(m)) = "Zoom Mode"
             /\ m = "DefaultMode" => At(modeActions, ModeActionIndex(m)) = "Select Mode"

\* The window is built and updateActionFromMode has looked up an action.
C2_Witness ==
    /\ gpc = "running"
    /\ Len(widgetActions) = 22 /\ Len(modeActions) = 15 /\ Len(windowActions) = 2
    /\ ev.kind = "mode action" /\ ev.arg = "Zoom Mode"
    /\ modeActions[3].checked

\* The label of each mode.
LabelOfMode ==
    [m \in {"DefaultMode", "ScrollMode", "ZoomMode", "PlaceMode"} |->
        CASE m = "ScrollMode" -> "Scroll Mode"
          [] m = "ZoomMode" -> "Zoom Mode"
          [] m = "PlaceMode" -> "Place Mode"
          [] m = "DefaultMode" -> "Select Mode"]

\* C6: from construction on, and after any sequence of mode changes, the mode
\* label is "Scroll Mode", "Zoom Mode", "Place Mode" or "Select Mode" as the
\* widget is in ScrollMode, ZoomMode, PlaceMode or DefaultMode.
C6_ModeLabel == Built => modeLabel = LabelOfMode[mode]

C6_Witness ==
    /\ gpc = "running"
    /\ mode = "PlaceMode" /\ modeLabel = "Place Mode"
    /\ ev.kind = "mode action"

\* The DrawingWidget method each label names.
SlotOfLabel ==
    [l \in { WidgetLabels[i] : i \in 1..Len(WidgetLabels) } |->
        CASE l = "Undo" -> "undo"
          [] l = "Redo" -> "redo"
          [] l = "Cut" -> "cut"
          [] l = "Copy" -> "copy"
          [] l = "Paste" -> "paste"
          [] l = "Delete" -> "deleteSelection"
          [] l = "Select All" -> "selectAll"
          [] l = "Select None" -> "selectNone"
          [] l = "Rotate" -> "rotateSelection"
          [] l = "Rotate Back" -> "rotateBackSelection"
          [] l = "Flip" -> "flipSelection"
          [] l = "Bring Forward" -> "bringForward"
          [] l = "Send Backward" -> "sendBackward"
          [] l = "Bring to Front" -> "bringToFront"
          [] l = "Send to Back" -> "sendToBack"
          [] l = "Insert Point" -> "insertItemPoint"
          [] l = "Remove Point" -> "removeItemPoint"
          [] l = "Group" -> "group"
          [] l = "Ungroup" -> "ungroup"
          [] l = "Zoom In" -> "zoomIn"
          [] l = "Zoom Out" -> "zoomOut"
          [] l = "Zoom Fit" -> "zoomFit"]

\* The shortcuts the application presents for undo and zoom.
PresentedShortcuts ==
    [k \in {"Ctrl+Z", ".", ",", "/"} |->
        CASE k = "Ctrl+Z" -> "undo"
          [] k = "." -> "zoomIn"
          [] k = "," -> "zoomOut"
          [] k = "/" -> "zoomFit"]

\* C7: each of the 22 widget actions calls exactly one DrawingWidget method,
\* the one its label names; Ctrl+Z calls undo and ".", ",", "/" call zoomIn,
\* zoomOut, zoomFit; no key sequence is the shortcut of two actions, so a key
\* press calls at most one method.
C7_PassThrough ==
    Built =>
        /\ Len(widgetActions) = 22
        /\ \A i \in 1..Len(widgetActions) :
             /\ widgetActions[i].text \in DOMAIN SlotOfLabel
             /\ widgetActions[i].slot = SlotOfLabel[widgetActions[i].text]
        /\ \A k \in Keys : Cardinality(ShortcutMatches(k)) <= 1
        /\ \A k \in DOMAIN PresentedShortcuts :
             \E i \in 1..Len(widgetActions) :
                /\ ShortcutMatches(k) = {<<"widget", i>>}
                /\ widgetActions[i].slot = PresentedShortcuts[k]
        /\ ev.kind = "widget action" => calls = <<SlotOfLabel[ev.arg]>>
        /\ ev.kind = "key" =>
             /\ Len(calls) <= 1
             /\ ev.arg \in DOMAIN PresentedShortcuts => calls = <<PresentedShortcuts[ev.arg]>>

C7_Witness ==
    /\ ev.kind = "key" /\ ev.arg = "."
    /\ calls = <<"zoomIn">>

PopupCalls ==
    {"_singleItemContextMenu.popup", "_singlePolyItemContextMenu.popup",
     "_multipleItemContextMenu.popup", "_diagramContextMenu.popup"}

\* How often a call of the set occurs in the sequence of calls.
Count(seq, set) == Cardinality({ i \in 1..Len(seq) : seq[i] \in set })

C8_Release ==
    ev'.kind = "release" =>
        /\ IF ev'.arg = "RightButton"
             THEN IF mode # "DefaultMode"
                    THEN /\ Count(calls', {"setDefaultMode"}) = 1
                         /\ Count(calls', PopupCalls) = 0
                    ELSE /\ Count(calls', PopupCalls) = 1
                         /\ Count(calls', {"setDefaultMode"}) = 0
                         /\ mode' = mode
             ELSE /\ Count(calls', PopupCalls) = 0
                  /\ Count(calls', {"setDefaultMode", "clearSelection"}) = 0
                  /\ mode' = mode /\ selectedItems' = selectedItems
        /\ Count(calls', {"DrawingWidget.mouseReleaseEvent"}) = 1
        /\ calls'[Len(calls')] = "DrawingWidget.mouseReleaseEvent"

\* C8: on a right-button release the handler calls setDefaultMode and pops up
\* no menu when the widget is not in DefaultMode, and pops up exactly one
\* context menu and leaves the mode when it is; on any other button it pops
\* up nothing and calls neither setDefaultMode nor clearSelection; in every
\* case the base mouseReleaseEvent is called once, last.
C8_MouseRelease == [][C8_Release]_vars

C8_Witness ==
    /\ ev.kind = "release" /\ ev.arg = "RightButton"
    /\ calls = <<"setDefaultMode", "DrawingWidget.mouseReleaseEvent">>
    /\ mode = "DefaultMode"

\* The mode each mode action stands for.
ModeOfLabel(label) ==
    IF label = "Select Mode" THEN "DefaultMode"
    ELSE IF label = "Scroll Mode" THEN "ScrollMode"
    ELSE IF label = "Zoom Mode" THEN "ZoomMode"
    ELSE IF label \in DOMAIN PlaceTypes THEN "PlaceMode"
    ELSE "none"

CheckedActions == { i \in 1..Len(modeActions) : modeActions[i].checked }

\* C9: while the window runs, exactly one mode action is checked, and it is
\* "Select Mode", "Scroll Mode", "Zoom Mode" or one of the twelve "Place X"
\* actions as the widget is in DefaultMode, ScrollMode, ZoomMode or PlaceMode.
C9_CheckedAction ==
    Built =>
        /\ Cardinality(CheckedActions) = 1
        /\ \A i \in CheckedActions : ModeOfLabel(modeActions[i].text) = mode

\* A right-button release has brought the widget back from a place mode.
C9_Witness ==
    /\ ev.kind = "release" /\ calls[1] = "setDefaultMode"
    /\ mode = "DefaultMode"
    /\ CheckedActions = {1}

C10_Release ==
    (ev'.kind = "release" /\ ev'.arg = "RightButton" /\ mode = "DefaultMode") =>
        LET exists == mouseDownItem # NoItem
            isSelected == mouseDownItem \in selectedItems
            one == Cardinality(selectedItems) = 1
            points == \/ "CanInsertPoints" \in ItemFlags(mouseDownItem)
                      \/ "CanRemovePoints" \in ItemFlags(mouseDownItem)
            shown(menu) == Count(calls', {menu}) = 1
            cleared == Count(calls', {"clearSelection"}) > 0
        IN /\ shown("_singlePolyItemContextMenu.popup") <=>
                 (exists /\ isSelected /\ one /\ points)
           /\ shown("_singleItemContextMenu.popup") <=>
                 (exists /\ isSelected /\ one /\ ~points)
           /\ shown("_multipleItemContextMenu.popup") <=>
                 (exists /\ isSelected /\ ~one)
           /\ shown("_diagramContextMenu.popup") <=> ~(exists /\ isSelected)
           /\ cleared => ~exists
           /\ cleared => selectedItems' = {}
           /\ ~cleared => selectedItems' = selectedItems
           /\ (exists /\ ~isSelected) =>
                 /\ shown("_diagramContextMenu.popup")
                 /\ ~cleared

C11_EscapeShortcut ==
    Built =>
        /\ Len(modeActions) = 15
        /\ modeActions[1].text = "Select Mode"
        /\ modeActions[1].shortcut = "Escape"
        /\ modeActions[1].icon = ""
        /\ \A i \in 2..Len(modeActions) :
             modeActions[i].shortcut = "" /\ modeActions[i].icon = ""

====
